---- MODULE Spec2Model ----
(***************************************************************************)
(* Depths of Ascension: the tick scheduler (api/game-tick.js), the client  *)
(* game engine (js/game-engine.js), the record store they talk to          *)
(* (js/airtable-client.js) and the command pipeline between them.          *)
(*                                                                         *)
(* Every await on the record store is a suspension point: a tick           *)
(* invocation is a process whose steps are the stretches of code between   *)
(* two awaits, and two invocations interleave at those steps.              *)
(***************************************************************************)
EXTENDS Integers, Sequences, FiniteSets, TLC

(***************************************************************************)
(* Bounds of the model.                                                    *)
(***************************************************************************)
\* number of Command records the store may hold
MaxCmds == 2
\* number of storage calls that may fail in one behaviour
MaxFaults == 1
\* no tick invocation starts once the stored current_tick has reached it
MaxTick == 3
\* direct calls of CombatSystem functions and handlers in one behaviour
MaxCalls == 3
\* invocations of GameEngine.processTick, one after the other
MaxRuns == 2

(***************************************************************************)
(* Program constants.                                                      *)
(***************************************************************************)
RoomMaxX == 18
RoomMaxY == 8
PotionHealing == 15
SkillCheckDC == 16
MaxSkillLevel == 100
GoblinDodge == 3
StartTick == 1
StartX == 10
StartY == 5
StartHP == 20

Procs == {"p1", "p2"}

\* the instance the store holds, and an id no record has
InstanceIds == {1, 2}
StoredInstance == 1

\* characters of the instance (gameInstance.characters), and an id no
\* Character record has
InstanceCharacters == <<1, 2>>
CharIds == {1, 2}
CharRefs == {1, 2, 3}

SkillIds == {"swordsmanship", "shield_use", "perception"}

Min(a, b) == IF a < b THEN a ELSE b
Max(a, b) == IF a > b THEN a ELSE b

(***************************************************************************)
(* Raw command texts: a text is the sequence of its lower-cased words, or  *)
(* NoInput for a Command record whose raw_input field is absent.           *)
(***************************************************************************)
NoInput == <<"<undefined>">>

AttackWords == {"attack", "hit", "strike", "fight", "kill"}
MoveWords == {"move", "go", "walk", "run", "step"}
DefendWords == {"defend", "block", "guard", "shield", "protect"}
ItemWords == {"use", "drink", "consume", "apply"}
CastWords == {"cast", "spell", "magic"}
ExamineWords == {"examine", "look", "search", "inspect", "check"}

HasWord(input, ws) == \E i \in 1..Len(input) : input[i] \in ws

\* game-tick.js parseCommandFallback: the word lists are tried in order
parseCommandFallback(input) ==
    IF HasWord(input, AttackWords)
      THEN [intent |-> "attack", target |-> "goblin", skill_suggested |-> "swordsmanship"]
    ELSE IF HasWord(input, MoveWords)
      THEN [intent |-> "move", target |-> "none", skill_suggested |-> "navigation"]
    ELSE IF HasWord(input, DefendWords)
      THEN [intent |-> "use_skill", target |-> "none", skill_suggested |-> "shield_use"]
    ELSE IF HasWord(input, ItemWords)
      THEN [intent |-> "use_item", target |-> "health_potion", skill_suggested |-> "none"]
    ELSE [intent |-> "unknown", target |-> "none", skill_suggested |-> "none"]

(***************************************************************************)
(* Random sources.                                                         *)
(***************************************************************************)
\* rollD20: Math.floor(Math.random() * 20) + 1
rollD20 == 1..20
\* Math.random() * 100, sampled at the integers that decide a progression
\* draw at the levels the model reaches
ProgressDraws == {0, 9, 10, 99}
\* Math.random() > 0.5 ? 1 : -1
StepChoice == {1, -1}

\* skills[skillId] || 0
SkillLevel(character, skillId) ==
    IF skillId \in DOMAIN character.skills THEN character.skills[skillId] ELSE 0

\* Math.random() * 100 < 100 / (level + 10)
ProgressRollSucceeds(draw, level) == draw * (level + 10) < 100

(***************************************************************************)
(* The command handlers of game-tick.js.  A handler yields the set of its  *)
(* possible outcomes, one per draw of the random source: the Character     *)
(* fields it passes to updateCharacter (fields, taken from val) and the    *)
(* ActionResult it returns.                                                *)
(***************************************************************************)
NoFields == {}

Outcome(fields, val, type, success) ==
    [fields |-> fields, val |-> val, type |-> type, success |-> success,
     damage |-> 0, target_hp |-> 0]

\* the goblin the attack handlers create at each call
GoblinEnemy ==
    [current_hp |-> 10, max_hp |-> 10, skills |-> [s \in {"swordsmanship", "dodge"} |->
                                                     IF s = "dodge" THEN GoblinDodge ELSE 5]]

\* the outcome of an attack handler: damage is the damage of its result,
\* target_hp the health of the enemy object the attack was resolved against
AttackOutcome(fields, val, hit, damage) ==
    [Outcome(fields, val, "attack", hit) EXCEPT !.damage = damage,
                                                !.target_hp = GoblinEnemy.current_hp]

WithSkill(character, skillId, level) ==
    [character EXCEPT !.skills =
        [s \in DOMAIN character.skills \cup {skillId} |->
            IF s = skillId THEN level ELSE character.skills[s]]]

\* game-tick.js processAttackCommand, its "simple attack resolution" against
\* the goblin for the two die rolls it draws: total, defenseRoll, hit and
\* damage as the result reports them
simpleAttack(skillLevel, r1, r2) ==
    LET attackRoll == r1 + skillLevel
        defenseRoll == r2 + GoblinEnemy.skills.dodge
        hit == attackRoll >= defenseRoll
        base == Max(1, (skillLevel \div 5) + 1)
    IN [total |-> attackRoll, defenseRoll |-> defenseRoll, hit |-> hit,
        damage |-> IF ~hit THEN 0
                   ELSE IF attackRoll - skillLevel = 20 THEN base * 2 ELSE base]

\* processAttackCommand that evaluates the progression of the skill after a
\* hit only
processAttackCommand_ProgressOnHit(character, parsedIntent) ==
    LET skillId == IF parsedIntent.skill_suggested = "none"
                     THEN "swordsmanship" ELSE parsedIntent.skill_suggested
        skillLevel == SkillLevel(character, skillId)
        attacks == { LET a == simpleAttack(skillLevel, r1, r2)
                     IN [hit |-> a.hit, damage |-> a.damage]
                     : r1 \in rollD20, r2 \in rollD20 }
        levelled == WithSkill(character, skillId, Min(skillLevel + 1, MaxSkillLevel))
    IN { IF a.hit /\ ProgressRollSucceeds(d, skillLevel)
           THEN AttackOutcome({"skills"}, levelled, a.hit, a.damage)
           ELSE AttackOutcome(NoFields, character, a.hit, a.damage)
         : a \in attacks, d \in ProgressDraws }

\* game-tick.js processAttackCommand
processAttackCommand(character, parsedIntent) ==
    LET skillId == IF parsedIntent.skill_suggested = "none"
                     THEN "swordsmanship" ELSE parsedIntent.skill_suggested
        skillLevel == SkillLevel(character, skillId)
        \* hit and damage, for the two die rolls
        attacks == { LET a == simpleAttack(skillLevel, r1, r2)
                     IN [hit |-> a.hit, damage |-> a.damage]
                     : r1 \in rollD20, r2 \in rollD20 }
        levelled == WithSkill(character, skillId, Min(skillLevel + 1, MaxSkillLevel))
    IN { IF ProgressRollSucceeds(d, skillLevel)
           THEN AttackOutcome({"skills"}, levelled, a.hit, a.damage)
           ELSE AttackOutcome(NoFields, character, a.hit, a.damage)
         : a \in attacks, d \in ProgressDraws }

\* a clamp without the upper bound
Clamp_NoUpper(lo, hi, v) == Max(lo, v)

Clamp(lo, hi, v) == Max(lo, Min(hi, v))

\* game-tick.js processMoveCommand
processMoveCommand(character, parsedIntent) ==
    { Outcome({"x_position", "y_position"},
              [character EXCEPT
                  !.x_position = Clamp(1, RoomMaxX, character.x_position + dx),
                  !.y_position = Clamp(1, RoomMaxY, character.y_position + dy)],
              "move", TRUE)
      : dx \in StepChoice, dy \in StepChoice }

\* a skill check that a total equal to the difficulty fails
skillCheck_AboveDC(skillLevel, roll) ==
    [roll |-> roll, total |-> roll + skillLevel, dc |-> SkillCheckDC,
     success |-> roll + skillLevel > SkillCheckDC]

\* the skill check of processSkillCommand (game-tick.js) and of
\* GameEngine.processSkillCommand, for the die roll it draws: roll, total,
\* dc and success as the result reports them
skillCheck(skillLevel, roll) ==
    LET total == roll + skillLevel
        dc == SkillCheckDC
    IN [roll |-> roll, total |-> total, dc |-> dc, success |-> total >= dc]

\* game-tick.js processSkillCommand
processSkillCommand(character, parsedIntent) ==
    LET skillId == IF parsedIntent.skill_suggested = "none"
                     THEN "perception" ELSE parsedIntent.skill_suggested
        skillLevel == SkillLevel(character, skillId)
    IN { LET success == skillCheck(skillLevel, roll).success
             leveledUp == ProgressRollSucceeds(d, skillLevel)
         IN IF leveledUp
              THEN Outcome({"skills"},
                           WithSkill(character, skillId, Min(skillLevel + 1, MaxSkillLevel)),
                           "skill_check", success)
              ELSE Outcome(NoFields, character, "skill_check", success)
         : roll \in rollD20, d \in ProgressDraws }

Includes(inventory, item) == \E i \in 1..Len(inventory) : inventory[i] = item

\* inventory.filter(item => item !== 'health_potion')
FilterOut(inventory, item) == SelectSeq(inventory, LAMBDA it : it # item)

\* game-tick.js processItemCommand
processItemCommand(character, parsedIntent) ==
    IF Includes(character.inventory, "health_potion")
      THEN LET newHP == Min(character.max_hp, character.current_hp + PotionHealing)
           IN { Outcome({"current_hp", "inventory"},
                        [character EXCEPT
                            !.current_hp = newHP,
                            !.inventory = FilterOut(character.inventory, "health_potion")],
                        "item_use", TRUE) }
      ELSE { Outcome(NoFields, character, "item_use", FALSE) }

\* an interact handler that reports a failure
processInteractCommand_Fails(character, parsedIntent) ==
    { Outcome(NoFields, character, "interact", FALSE) }

\* game-tick.js processInteractCommand
processInteractCommand(character, parsedIntent) ==
    { Outcome(NoFields, character, "interact", TRUE) }

\* the switch of game-tick.js processCommand
Dispatch(character, parsedIntent) ==
    CASE parsedIntent.intent = "attack" -> processAttackCommand(character, parsedIntent)
      [] parsedIntent.intent = "move" -> processMoveCommand(character, parsedIntent)
      [] parsedIntent.intent = "use_skill" -> processSkillCommand(character, parsedIntent)
      [] parsedIntent.intent = "use_item" -> processItemCommand(character, parsedIntent)
      [] parsedIntent.intent = "interact" -> processInteractCommand(character, parsedIntent)
      [] OTHER -> { Outcome(NoFields, character, "unknown", FALSE) }

(***************************************************************************)
(* CombatSystem (js/combat-system.js).  The die rolls and the progression  *)
(* draw are parameters: the injected random source.                        *)
(***************************************************************************)
NoModifiers == [item |-> 0, buffs |-> 0, debuffs |-> 0, ability |-> 0]

\* calculateAttackRoll without the penalty of an untrained skill
calculateAttackRoll_NoPenalty(roll, skillLevel, modifiers) ==
    [roll |-> roll,
     total |-> roll + skillLevel + modifiers.item + modifiers.buffs - modifiers.debuffs,
     critical |-> roll = 20,
     fumble |-> roll = 1]

\* CombatSystem.calculateAttackRoll, for the die roll it draws
calculateAttackRoll(roll, skillLevel, modifiers) ==
    LET skillPenalty == IF skillLevel = 0 THEN -5 ELSE 0
    IN [roll |-> roll,
        total |-> roll + skillLevel + modifiers.item + modifiers.buffs
                    - modifiers.debuffs + skillPenalty,
        critical |-> roll = 20,
        fumble |-> roll = 1]

\* CombatSystem.calculateDefenseRoll
calculateDefenseRoll(roll, character, modifiers) ==
    LET highestDefensiveSkill ==
            Max(SkillLevel(character, "dodge"),
                Max(SkillLevel(character, "shield_use"), SkillLevel(character, "parry")))
    IN calculateAttackRoll(roll, highestDefensiveSkill, modifiers)

\* calculateDamage that does not double a critical hit
calculateDamage_NoDoubling(skillLevel, weaponDamage, ability, critical) ==
    Max(1, (skillLevel \div 5) + weaponDamage + ability)

\* CombatSystem.calculateDamage
calculateDamage(skillLevel, weaponDamage, ability, critical) ==
    LET base == (skillLevel \div 5) + weaponDamage + ability
        baseDamage == IF critical THEN base * 2 ELSE base
    IN Max(1, baseDamage)

\* CombatSystem.getWeaponDamage
getWeaponDamage(weaponId) ==
    CASE weaponId = "rusty_sword" -> 1
      [] weaponId = "iron_sword" -> 3
      [] weaponId = "steel_sword" -> 5
      [] weaponId = "simple_bow" -> 2
      [] weaponId = "flaming_sword" -> 5
      [] OTHER -> 0

\* resolveAttack without the clamp of the damage to the defender's health
resolveAttack_Unclamped(attacker, defender, skillId, attackModifiers, defenseModifiers, r1, r2) ==
    LET attackerSkill == SkillLevel(attacker, skillId)
        attackRoll == calculateAttackRoll(r1, attackerSkill, attackModifiers)
        defenseRoll == calculateDefenseRoll(r2, defender, defenseModifiers)
        hit == attackRoll.total >= defenseRoll.total
        damage == IF hit
                    THEN calculateDamage(attackerSkill, getWeaponDamage(attacker.main_hand),
                                         attackModifiers.ability, attackRoll.critical)
                    ELSE 0
    IN [hit |-> hit, attackRoll |-> attackRoll, defenseRoll |-> defenseRoll,
        damage |-> damage, actualDamage |-> damage,
        critical |-> attackRoll.critical, fumble |-> attackRoll.fumble,
        skillLevel |-> attackerSkill]

\* resolveAttack in which a tie of the two totals is a miss
resolveAttack_TieMisses(attacker, defender, skillId, attackModifiers, defenseModifiers, r1, r2) ==
    LET attackerSkill == SkillLevel(attacker, skillId)
        attackRoll == calculateAttackRoll(r1, attackerSkill, attackModifiers)
        defenseRoll == calculateDefenseRoll(r2, defender, defenseModifiers)
        hit == attackRoll.total > defenseRoll.total
        damage == IF hit
                    THEN calculateDamage(attackerSkill, getWeaponDamage(attacker.main_hand),
                                         attackModifiers.ability, attackRoll.critical)
                    ELSE 0
    IN [hit |-> hit, attackRoll |-> attackRoll, defenseRoll |-> defenseRoll,
        damage |-> damage,
        actualDamage |-> IF hit THEN Min(damage, defender.current_hp) ELSE 0,
        critical |-> attackRoll.critical, fumble |-> attackRoll.fumble,
        skillLevel |-> attackerSkill]

\* CombatSystem.resolveAttack, for the two die rolls it draws
resolveAttack(attacker, defender, skillId, attackModifiers, defenseModifiers, r1, r2) ==
    LET attackerSkill == SkillLevel(attacker, skillId)
        weaponDamage == getWeaponDamage(attacker.main_hand)
        attackRoll == calculateAttackRoll(r1, attackerSkill, attackModifiers)
        defenseRoll == calculateDefenseRoll(r2, defender, defenseModifiers)
        hit == attackRoll.total >= defenseRoll.total
        damage == IF hit
                    THEN calculateDamage(attackerSkill, weaponDamage,
                                         attackModifiers.ability, attackRoll.critical)
                    ELSE 0
        actualDamage == IF hit THEN Min(damage, defender.current_hp) ELSE 0
    IN [hit |-> hit, attackRoll |-> attackRoll, defenseRoll |-> defenseRoll,
        damage |-> damage, actualDamage |-> actualDamage,
        critical |-> attackRoll.critical, fumble |-> attackRoll.fumble,
        skillLevel |-> attackerSkill]

\* the defender object after CombatSystem.resolveAttack: it is only read
resolveAttack_defender(attacker, defender, skillId, r1, r2) == defender

\* processSkillProgression without the cap of the level
processSkillProgression_Uncapped(character, skillId, draw) ==
    LET currentLevel == SkillLevel(character, skillId)
    IN IF ProgressRollSucceeds(draw, currentLevel)
         THEN [leveledUp |-> TRUE, newLevel |-> currentLevel + 1, oldLevel |-> currentLevel,
               character |-> WithSkill(character, skillId, currentLevel + 1)]
         ELSE [leveledUp |-> FALSE, newLevel |-> currentLevel, oldLevel |-> currentLevel,
               character |-> character]

\* CombatSystem.processSkillProgression, for the draw of Math.random() * 100;
\* character is the character after the call
processSkillProgression(character, skillId, draw) ==
    LET currentLevel == SkillLevel(character, skillId)
    IN IF ProgressRollSucceeds(draw, currentLevel)
         THEN LET newLevel == Min(currentLevel + 1, MaxSkillLevel)
              IN [leveledUp |-> TRUE, newLevel |-> newLevel, oldLevel |-> currentLevel,
                  character |-> WithSkill(character, skillId, newLevel)]
         ELSE [leveledUp |-> FALSE, newLevel |-> currentLevel, oldLevel |-> currentLevel,
               character |-> character]

RECURSIVE SumLevels(_, _)
SumLevels(skills, keys) ==
    IF keys = {} THEN 0
    ELSE LET k == CHOOSE x \in keys : TRUE
         IN skills[k] + SumLevels(skills, keys \ {k})

\* CombatSystem.calculateTotalLevel
calculateTotalLevel(skills) == SumLevels(skills, DOMAIN skills)

\* CombatSystem.calculateMaxHP
calculateMaxHP(totalLevel) == 20 + (totalLevel \div 10)

\* CombatSystem.calculateMaxEnergy
calculateMaxEnergy(totalLevel) == 10 + (totalLevel \div 20)

\* applyDamage that never moves a target beyond knocked_out
applyDamage_KnockedOutOnly(target, damage) ==
    LET newHP == Max(0, target.current_hp - damage)
    IN [target EXCEPT
          !.current_hp = newHP,
          !.status = IF newHP = 0 THEN "knocked_out" ELSE target.status]

\* CombatSystem.applyDamage: the target after the call
applyDamage(target, damage) ==
    LET newHP == Max(0, target.current_hp - damage)
        died == newHP = 0
    IN [target EXCEPT
          !.current_hp = newHP,
          !.status = IF died
                       THEN (IF target.status = "active" THEN "knocked_out" ELSE "dead")
                       ELSE target.status]

\* CombatSystem.applyHealing: the target after the call
applyHealing(target, healing) ==
    LET maxHP == calculateMaxHP(calculateTotalLevel(target.skills))
        newHP == Min(maxHP, target.current_hp + healing)
    IN [target EXCEPT !.current_hp = newHP]

\* CombatSystem.applyHealing: the object it returns
applyHealing_result(target, healing) ==
    LET maxHP == calculateMaxHP(calculateTotalLevel(target.skills))
        newHP == Min(maxHP, target.current_hp + healing)
    IN [newHP |-> newHP, actualHealing |-> newHP - target.current_hp]

(***************************************************************************)
(* LLMIntegration (js/llm-integration.js) and the command handlers of      *)
(* GameEngine (js/game-engine.js).                                         *)
(***************************************************************************)
\* LLMIntegration.fallbackParser
fallbackParser(input) ==
    IF HasWord(input, AttackWords)
      THEN [intent |-> "attack", target |-> "none",
            skill_suggested |->
              IF HasWord(input, {"sword", "blade", "slash"}) THEN "swordsmanship"
              ELSE IF HasWord(input, {"bow", "arrow", "shoot"}) THEN "archery"
              ELSE IF HasWord(input, {"axe", "chop"}) THEN "axe_fighting"
              ELSE IF HasWord(input, {"punch", "kick", "fist"}) THEN "unarmed_combat"
              ELSE "swordsmanship"]
    ELSE IF HasWord(input, MoveWords)
      THEN [intent |-> "move",
            target |->
              IF HasWord(input, {"north", "up", "forward"}) THEN "north"
              ELSE IF HasWord(input, {"south", "down", "back"}) THEN "south"
              ELSE IF HasWord(input, {"east", "right"}) THEN "east"
              ELSE IF HasWord(input, {"west", "left"}) THEN "west"
              ELSE "none",
            skill_suggested |-> "navigation"]
    ELSE IF HasWord(input, DefendWords)
      THEN [intent |-> "use_skill", target |-> "none", skill_suggested |-> "shield_use"]
    ELSE IF HasWord(input, ItemWords)
      THEN [intent |-> "use_item",
            target |->
              IF HasWord(input, {"potion", "health", "healing"}) THEN "health_potion"
              ELSE IF HasWord(input, {"energy", "mana"}) THEN "energy_potion"
              ELSE "none",
            skill_suggested |-> "none"]
    ELSE IF HasWord(input, CastWords)
      THEN [intent |-> "use_skill", target |-> "none",
            skill_suggested |->
              IF HasWord(input, {"fire", "flame", "burn"}) THEN "fire_magic"
              ELSE IF HasWord(input, {"ice", "frost", "freeze"}) THEN "ice_magic"
              ELSE IF HasWord(input, {"lightning", "thunder", "shock"}) THEN "lightning_magic"
              ELSE IF HasWord(input, {"heal", "cure", "restore"}) THEN "healing_magic"
              ELSE "arcane_magic"]
    ELSE IF HasWord(input, ExamineWords)
      THEN [intent |-> "interact", target |-> "none", skill_suggested |-> "perception"]
    ELSE [intent |-> "unknown", target |-> "none", skill_suggested |-> "none"]

\* answers of the intent service, when it answers
ServiceAnswers ==
    { [intent |-> "interact", target |-> "none", skill_suggested |-> "perception"],
      [intent |-> "use_skill", target |-> "none", skill_suggested |-> "perception"] }

\* LLMIntegration.parseCommand: the answer of the service, or the fallback
\* when the service is unavailable
parseCommand(input) == {fallbackParser(input)} \cup ServiceAnswers

\* GameEngine.processAttackCommand
GameEngine_processAttackCommand(character, parsedIntent) ==
    LET skillId == IF parsedIntent.skill_suggested = "none"
                     THEN "swordsmanship" ELSE parsedIntent.skill_suggested
        attacks == { LET attackResult == resolveAttack(character, GoblinEnemy, skillId,
                                                       NoModifiers, NoModifiers, r1, r2)
                     IN [hit |-> attackResult.hit,
                         actualDamage |-> attackResult.actualDamage]
                     : r1 \in rollD20, r2 \in rollD20 }
        progress == { processSkillProgression(character, skillId, d) : d \in ProgressDraws }
    IN { AttackOutcome(IF skillProgress.leveledUp THEN {"skills"} ELSE NoFields,
                       skillProgress.character, a.hit, a.actualDamage)
         : a \in attacks, skillProgress \in progress }

\* GameEngine.processMoveCommand
GameEngine_processMoveCommand(character, parsedIntent) ==
    { Outcome({"x_position", "y_position"},
              [character EXCEPT
                  !.x_position = Clamp(1, RoomMaxX, character.x_position + dx),
                  !.y_position = Clamp(1, RoomMaxY, character.y_position + dy)],
              "move", TRUE)
      : dx \in StepChoice, dy \in StepChoice }

\* GameEngine.processSkillCommand
GameEngine_processSkillCommand(character, parsedIntent) ==
    LET skillId == parsedIntent.skill_suggested
        skillLevel == SkillLevel(character, skillId)
    IN { LET success == skillCheck(skillLevel, roll).success
             skillProgress == processSkillProgression(character, skillId, d)
         IN Outcome(IF skillProgress.leveledUp THEN {"skills"} ELSE NoFields,
                    skillProgress.character, "skill_check", success)
         : roll \in rollD20, d \in ProgressDraws }

\* GameEngine.processItemCommand
GameEngine_processItemCommand(character, parsedIntent) ==
    IF Includes(character.inventory, "health_potion")
      THEN { Outcome({"current_hp", "inventory"},
                     [applyHealing(character, PotionHealing) EXCEPT
                         !.inventory = FilterOut(character.inventory, "health_potion")],
                     "item_use", TRUE) }
      ELSE { Outcome(NoFields, character, "item_use", FALSE) }

\* the switch of GameEngine.processCommand
GameEngine_Dispatch(character, parsedIntent) ==
    CASE parsedIntent.intent = "attack" -> GameEngine_processAttackCommand(character, parsedIntent)
      [] parsedIntent.intent = "move" -> GameEngine_processMoveCommand(character, parsedIntent)
      [] parsedIntent.intent = "use_skill" -> GameEngine_processSkillCommand(character, parsedIntent)
      [] parsedIntent.intent = "use_item" -> GameEngine_processItemCommand(character, parsedIntent)
      [] parsedIntent.intent = "interact" -> { Outcome(NoFields, character, "interact", TRUE) }
      [] OTHER -> { Outcome(NoFields, character, "unknown", FALSE) }

(***************************************************************************)
(* State.                                                                  *)
(*   inst   the stored GameInstance record (game_instances table)          *)
(*   chars  the stored Character records (characters table)                *)
(*   cmds   the stored Command records in creation order (commands table); *)
(*          a command's id is its index                                    *)
(*   faults number of storage calls that have failed so far                *)
(*   tk     the invocations of processGameTick (game-tick.js)              *)
(*   eng    the invocation of GameEngine.processTick (game-engine.js)      *)
(*   adv    the last call of GameEngine.advanceToNextRoom: what it         *)
(*          returned and the gameInstance object it held when it returned  *)
(*   call   the last direct call of a CombatSystem function or of a        *)
(*          command handler: its name, the character it was given, what    *)
(*          it returned, and the number of such calls so far               *)
(***************************************************************************)
VARIABLES inst, chars, cmds, faults, tk, eng, adv, call

vars == <<inst, chars, cmds, faults, tk, eng, adv, call>>

GameStates == {"active", "completed", "failed"}

\* dungeon.room_sequence.length of the instance's dungeon
NumRooms == 2

\* AirtableClient.createCharacter: the fields of a new Character record
NewCharacter ==
    [current_hp |-> StartHP, max_hp |-> StartHP,
     skills |-> [s \in SkillIds |-> 0],
     inventory |-> <<"health_potion">>,
     main_hand |-> "rusty_sword",
     x_position |-> StartX, y_position |-> StartY,
     status |-> "active"]

\* AirtableClient.createGameInstance: the fields of a new GameInstance record
NewGameInstance ==
    [current_room_index |-> 0, game_state |-> "active", current_tick |-> StartTick]

\* a Command record tagged with the tick after the one given
NewCommand_NextTick(characterId, tickNumber, rawInput) ==
    [character_id |-> characterId, tick_number |-> tickNumber + 1,
     raw_input |-> rawInput, success |-> FALSE, writes |-> 0, applied |-> 0]

\* AirtableClient.submitCommand: the fields of a new Command record; writes
\* and applied count the result write-backs and the Character updates issued
\* for the command
NewCommand(characterId, tickNumber, rawInput) ==
    [character_id |-> characterId, tick_number |-> tickNumber,
     raw_input |-> rawInput, success |-> FALSE, writes |-> 0, applied |-> 0]

NoOutcome == Outcome(NoFields, NewCharacter, "none", FALSE)

\* no room status yet
NoRoomStatus == [completed |-> FALSE, advance |-> FALSE, reason |-> "none"]

\* failed holds the positions in results of the commands whose handler's
\* storage update failed
IdleTick ==
    [pc |-> "idle", force |-> FALSE, instance_id |-> StoredInstance,
     gameInstance |-> NewGameInstance, room_status |-> NoRoomStatus,
     currentTick |-> 0, expectedPlayers |-> 0, commands |-> <<>>, i |-> 0,
     pending |-> NoOutcome, results |-> <<>>,
     ret |-> "none", submitted |-> 0, nextTick |-> 0,
     wrote |-> FALSE, committed |-> FALSE, failed |-> {}]

\* runs counts the invocations of GameEngine.processTick that returned,
\* resolved holds the commands they processed
IdleEngine ==
    [pc |-> "idle", force |-> FALSE, instance_id |-> StoredInstance,
     gameInstance |-> NewGameInstance, commands |-> <<>>, i |-> 0,
     results |-> <<>>, ret |-> "none", loaded |-> FALSE, wrote |-> FALSE,
     failed |-> {}, runs |-> 0, resolved |-> {}]

\* what players submit in the scheduler model, as <<character, text>>: an
\* attack, a move, an item use, a command without text and a command of a
\* character that has no record
Submissions ==
    { <<1, <<"attack", "goblin">>>>, <<1, <<"go", "north">>>>,
      <<2, <<"drink", "potion">>>>, <<2, NoInput>>, <<3, <<"go">>>> }

\* getTickCommands: the ids of the commands of one tick, in store order
TickCommandIds(tickNumber) ==
    SelectSeq([k \in 1..Len(cmds) |-> k], LAMBDA k : cmds[k].tick_number = tickNumber)

\* updateCharacter(characterId, updates): only the named fields are written
ApplyUpdate(stored, fields, val) ==
    [f \in DOMAIN stored |-> IF f \in fields THEN val[f] ELSE stored[f]]

CanFail == faults < MaxFaults

\* no tick invocation is between its first and its last step
Quiescent ==
    /\ \A p \in Procs : tk[p].pc \in {"idle", "done"}
    /\ eng.pc \in {"idle", "done"}

(***************************************************************************)
(* processGameTick (game-tick.js), one action per stretch between awaits;  *)
(* the ...Fails actions are the same awaits rejecting.                     *)
(***************************************************************************)
\* the result the catch of the command loop pushes
FailedResult(characterId) ==
    [character_id |-> characterId, type |-> "error", success |-> FALSE,
     damage |-> 0, target_hp |-> 0]

ActionResult(characterId, o) ==
    [character_id |-> characterId, type |-> o.type, success |-> o.success,
     damage |-> o.damage, target_hp |-> o.target_hp]

\* where the loop goes after command i
AfterCommand(t) ==
    IF t.i < Len(t.commands)
      THEN [t EXCEPT !.i = t.i + 1, !.pc = "getCharacter", !.pending = NoOutcome]
      ELSE [t EXCEPT !.pc = "updateGameInstance", !.pending = NoOutcome]

\* the catch of the command loop: a failed result for the command's character
CatchCommand(t) ==
    AfterCommand([t EXCEPT !.results =
        Append(t.results, FailedResult(cmds[t.commands[t.i]].character_id))])

\* the catch of processGameTick
CatchTick(t) == [t EXCEPT !.pc = "done", !.ret = "error"]

\* the guard of GameEngine.processTick in its place: wait for no command only
ShouldWait_AnyCommand(submitted, expected, force) == submitted = 0 /\ ~force

\* the guard of 'Waiting for more players'
ShouldWait(submitted, expected, force) == submitted < expected /\ ~force

\* a guard that rejects failed instances only
IsActive_NotFailed(gameInstance) == gameInstance.game_state # "failed"

\* the guard of 'Game is not active'
IsActive(gameInstance) == gameInstance.game_state = "active"

\* handler(req, res) calls processGameTick(instance_id, force)
TickStart(p, id, force) ==
    /\ tk[p].pc = "idle"
    /\ tk' = [tk EXCEPT ![p] = [@ EXCEPT !.pc = "getGameInstance",
                                         !.instance_id = id, !.force = force]]
    /\ UNCHANGED <<inst, chars, cmds, faults, eng, adv, call>>

\* the same call while no other tick invocation is running
TickStartAlone(p, id, force) ==
    /\ Quiescent
    /\ inst.current_tick < MaxTick
    /\ TickStart(p, id, force)

\* the status codes of the responses of handler
StatusOk == 200
StatusClientError == 400
StatusInternalError == 500

\* handler: a request body without instance_id is answered before
\* processGameTick is called
HandlerMissingInstanceId(p) ==
    /\ Quiescent
    /\ tk[p].pc = "idle"
    /\ tk' = [tk EXCEPT ![p] = [@ EXCEPT !.pc = "done", !.ret = "missing_instance_id"]]
    /\ UNCHANGED <<inst, chars, cmds, faults, eng, adv, call>>

\* handler: the status of the response for what processGameTick returned;
\* processGameTick catches every exception itself, so none reaches the
\* catch of handler
ResponseStatus(ret) ==
    IF ret = "missing_instance_id" THEN StatusClientError
    ELSE IF ret = "success" THEN StatusOk
    ELSE StatusClientError

\* the caller has taken the return value: the invocation is over
TickReturn(p) ==
    /\ tk[p].pc = "done"
    /\ tk' = [tk EXCEPT ![p] = IdleTick]
    /\ UNCHANGED <<inst, chars, cmds, faults, eng, adv, call>>

\* await getGameInstance; the not-found and the not-active returns
TickGetGameInstance(p) ==
    /\ tk[p].pc = "getGameInstance"
    /\ tk' = [tk EXCEPT ![p] =
          IF tk[p].instance_id # StoredInstance
            THEN [@ EXCEPT !.pc = "done", !.ret = "not_found"]
          ELSE IF ~IsActive(inst)
            THEN [@ EXCEPT !.pc = "done", !.ret = "not_active"]
          ELSE [@ EXCEPT !.pc = "getTickCommands",
                         !.gameInstance = inst,
                         !.currentTick = inst.current_tick,
                         !.expectedPlayers = Len(InstanceCharacters)]]
    /\ UNCHANGED <<inst, chars, cmds, faults, eng, adv, call>>

\* await getTickCommands; the waiting return
TickGetTickCommands(p) ==
    /\ tk[p].pc = "getTickCommands"
    /\ LET commands == TickCommandIds(tk[p].currentTick)
       IN tk' = [tk EXCEPT ![p] =
            IF ShouldWait(Len(commands), tk[p].expectedPlayers, tk[p].force)
              THEN [@ EXCEPT !.pc = "done", !.ret = "waiting", !.commands = commands,
                             !.submitted = Len(commands)]
            ELSE IF commands = <<>>
              THEN [@ EXCEPT !.pc = "updateGameInstance", !.commands = commands]
            ELSE [@ EXCEPT !.pc = "getCharacter", !.commands = commands, !.i = 1]]
    /\ UNCHANGED <<inst, chars, cmds, faults, eng, adv, call>>

\* a rejected getGameInstance or getTickCommands: the catch of processGameTick
TickLoadFails(p) ==
    /\ tk[p].pc \in {"getGameInstance", "getTickCommands"}
    /\ CanFail
    /\ faults' = faults + 1
    /\ tk' = [tk EXCEPT ![p] = CatchTick(@)]
    /\ UNCHANGED <<inst, chars, cmds, eng, adv, call>>

\* processCommand up to its storage update: await getCharacter, parse, run
\* the handler; a handler without update returns, and its result is pushed
TickGetCharacter(p) ==
    /\ tk[p].pc = "getCharacter"
    /\ LET c == cmds[tk[p].commands[tk[p].i]]
       IN IF c.character_id \notin CharIds \/ c.raw_input = NoInput
            THEN tk' = [tk EXCEPT ![p] = CatchCommand(@)]
            ELSE \E o \in Dispatch(chars[c.character_id],
                                   parseCommandFallback(c.raw_input)) :
                   tk' = [tk EXCEPT ![p] =
                      IF o.fields = NoFields
                        THEN [@ EXCEPT !.pc = "updateCommand", !.pending = o,
                               !.results = Append(@, ActionResult(c.character_id, o))]
                        ELSE [@ EXCEPT !.pc = "updateCharacter", !.pending = o]]
    /\ UNCHANGED <<inst, chars, cmds, faults, eng, adv, call>>

\* await updateCharacter inside the handler; then the result is pushed
TickUpdateCharacter(p) ==
    /\ tk[p].pc = "updateCharacter"
    /\ LET k == tk[p].commands[tk[p].i]
           c == cmds[k]
           o == tk[p].pending
       IN /\ chars' = [chars EXCEPT ![c.character_id] = ApplyUpdate(@, o.fields, o.val)]
          /\ cmds' = [cmds EXCEPT ![k].applied = @ + 1]
          /\ tk' = [tk EXCEPT ![p] =
                [@ EXCEPT !.pc = "updateCommand", !.wrote = TRUE,
                          !.results = Append(@, ActionResult(c.character_id, o))]]
    /\ UNCHANGED <<inst, faults, eng, adv, call>>

\* await updateCommand(command.command_id, result)
TickUpdateCommand(p) ==
    /\ tk[p].pc = "updateCommand"
    /\ LET k == tk[p].commands[tk[p].i]
       IN /\ cmds' = [cmds EXCEPT ![k].writes = @ + 1,
                                  ![k].success = tk[p].pending.success]
          /\ tk' = [tk EXCEPT ![p] = AfterCommand([@ EXCEPT !.wrote = TRUE])]
    /\ UNCHANGED <<inst, chars, faults, eng, adv, call>>

\* a rejected getCharacter, updateCharacter or updateCommand: the catch of
\* the command loop
TickCommandFails(p) ==
    /\ tk[p].pc \in {"getCharacter", "updateCharacter", "updateCommand"}
    /\ CanFail
    /\ faults' = faults + 1
    /\ tk' = [tk EXCEPT ![p] =
          CatchCommand([@ EXCEPT !.failed =
              IF tk[p].pc = "updateCharacter"
                THEN @ \cup {Len(tk[p].results) + 1} ELSE @])]
    /\ UNCHANGED <<inst, chars, cmds, eng, adv, call>>

\* the tick number the instance update stores
NextTickOf(currentTick) == currentTick + 1

\* await updateGameInstance(instanceId, {current_tick: nextTick, ...})
TickUpdateGameInstance(p) ==
    /\ tk[p].pc = "updateGameInstance"
    /\ inst' = [inst EXCEPT !.current_tick = NextTickOf(tk[p].currentTick)]
    /\ tk' = [tk EXCEPT ![p] =
          [@ EXCEPT !.pc = "checkRoomCompletion", !.wrote = TRUE,
                    !.committed = TRUE,
                    !.nextTick = NextTickOf(tk[p].currentTick)]]
    /\ UNCHANGED <<chars, cmds, faults, eng, adv, call>>

\* checkRoomCompletion(gameInstance, results): the same status whatever the
\* instance and the results are
checkRoomCompletion(gameInstance, results) ==
    [completed |-> FALSE, advance |-> FALSE, reason |-> "Combat ongoing"]

\* GameEngine.areAllEnemiesDefeated(roomState); enemies <<>> stands for a
\* room state without enemies
areAllEnemiesDefeated(roomState) ==
    \/ roomState.enemies = <<>>
    \/ \A n \in 1..Len(roomState.enemies) : roomState.enemies[n].current_hp <= 0

\* await checkRoomCompletion; the success return
TickCheckRoomCompletion(p) ==
    /\ tk[p].pc = "checkRoomCompletion"
    /\ tk' = [tk EXCEPT ![p] =
          [@ EXCEPT !.pc = "done", !.ret = "success",
                    !.room_status = checkRoomCompletion(@.gameInstance, @.results)]]
    /\ UNCHANGED <<inst, chars, cmds, faults, eng, adv, call>>

\* a rejected updateGameInstance: the catch of processGameTick
TickUpdateGameInstanceFails(p) ==
    /\ tk[p].pc = "updateGameInstance"
    /\ CanFail
    /\ faults' = faults + 1
    /\ tk' = [tk EXCEPT ![p] = CatchTick(@)]
    /\ UNCHANGED <<inst, chars, cmds, eng, adv, call>>

\* a rejected checkRoomCompletion (the room evaluation of section 4.4 reads
\* the store): the catch of processGameTick
TickCheckRoomCompletionFails(p) ==
    /\ tk[p].pc = "checkRoomCompletion"
    /\ CanFail
    /\ faults' = faults + 1
    /\ tk' = [tk EXCEPT ![p] = CatchTick(@)]
    /\ UNCHANGED <<inst, chars, cmds, eng, adv, call>>

\* GameEngine.submitCommand: AirtableClient.submitCommand with the stored
\* current_tick
SubmitCommand(characterId, rawInput) ==
    /\ Len(cmds) < MaxCmds
    /\ cmds' = Append(cmds, NewCommand(characterId, inst.current_tick, rawInput))
    /\ UNCHANGED <<inst, chars, faults, tk, eng, adv, call>>

(***************************************************************************)
(* GameEngine.processTick (game-engine.js).  The AirtableClient methods    *)
(* catch a failed request themselves: getGameInstance and getCharacter     *)
(* then return null, getTickCommands returns [], updateCharacter false.    *)
(***************************************************************************)
\* the result of the catch of GameEngine.processCommand: it names no character
NoChar == 0

EngineFailedResult ==
    [character_id |-> NoChar, type |-> "error", success |-> FALSE,
     damage |-> 0, target_hp |-> 0]

\* after command i: the next command, or gameInstance.current_tick += 1 and
\* the return of {gameState, results}
EngineAfterCommand(e) ==
    IF e.i < Len(e.commands)
      THEN [e EXCEPT !.i = e.i + 1]
      ELSE [e EXCEPT !.pc = "done", !.ret = "ok",
                     !.gameInstance.current_tick = @ + 1]

\* the guard of 'Not ready to process'
EngineNotReady(commands, force) == Len(commands) = 0 /\ ~force

\* after getTickCommands returned commands
EngineLoaded(e, commands) ==
    IF EngineNotReady(commands, e.force)
      THEN [e EXCEPT !.pc = "done", !.ret = "null"]
    ELSE IF commands = <<>>
      THEN [e EXCEPT !.pc = "done", !.ret = "ok", !.loaded = TRUE,
                     !.gameInstance.current_tick = @ + 1]
    ELSE [e EXCEPT !.pc = "processCommand", !.commands = commands, !.i = 1,
                   !.loaded = TRUE]

EngineStart(id, force) ==
    /\ Quiescent
    /\ eng.pc = "idle"
    /\ eng' = [eng EXCEPT !.pc = "getGameInstance", !.instance_id = id, !.force = force]
    /\ UNCHANGED <<inst, chars, cmds, faults, tk, adv, call>>

\* await AirtableClient.getGameInstance
EngineGetGameInstance ==
    /\ eng.pc = "getGameInstance"
    /\ eng' = IF eng.instance_id # StoredInstance
                THEN [eng EXCEPT !.pc = "done", !.ret = "null"]
                ELSE [eng EXCEPT !.pc = "getTickCommands", !.gameInstance = inst]
    /\ UNCHANGED <<inst, chars, cmds, faults, tk, adv, call>>

EngineGetGameInstanceFails ==
    /\ eng.pc = "getGameInstance"
    /\ CanFail
    /\ faults' = faults + 1
    /\ eng' = [eng EXCEPT !.pc = "done", !.ret = "null"]
    /\ UNCHANGED <<inst, chars, cmds, tk, adv, call>>

\* await AirtableClient.getTickCommands
EngineGetTickCommands ==
    /\ eng.pc = "getTickCommands"
    /\ eng' = EngineLoaded(eng, TickCommandIds(eng.gameInstance.current_tick))
    /\ UNCHANGED <<inst, chars, cmds, faults, tk, adv, call>>

EngineGetTickCommandsFails ==
    /\ eng.pc = "getTickCommands"
    /\ CanFail
    /\ faults' = faults + 1
    /\ eng' = EngineLoaded(eng, <<>>)
    /\ UNCHANGED <<inst, chars, cmds, tk, adv, call>>

\* GameEngine.processCommand for command i: getCharacter, parseCommand, the
\* handler with its updateCharacter, the narration; a null result is skipped
EngineProcessCommand ==
    /\ eng.pc = "processCommand"
    /\ LET k == eng.commands[eng.i]
           c == cmds[k]
       IN IF c.character_id \notin CharIds
            THEN /\ eng' = EngineAfterCommand(eng)
                 /\ UNCHANGED <<chars, cmds>>
          ELSE IF c.raw_input = NoInput
            THEN /\ eng' = EngineAfterCommand(
                              [eng EXCEPT !.results = Append(@, EngineFailedResult)])
                 /\ UNCHANGED <<chars, cmds>>
          ELSE \E parsedIntent \in parseCommand(c.raw_input) :
               \E o \in GameEngine_Dispatch(chars[c.character_id], parsedIntent) :
                 /\ eng' = EngineAfterCommand(
                              [eng EXCEPT !.results =
                                  Append(@, ActionResult(c.character_id, o)),
                                          !.wrote = @ \/ o.fields # NoFields])
                 /\ IF o.fields = NoFields
                      THEN UNCHANGED <<chars, cmds>>
                      ELSE /\ chars' = [chars EXCEPT ![c.character_id] =
                                           ApplyUpdate(@, o.fields, o.val)]
                           /\ cmds' = [cmds EXCEPT ![k].applied = @ + 1]
    /\ UNCHANGED <<inst, faults, tk, adv, call>>

\* the same with a failed request: getCharacter returns null and the
\* command yields no result, or updateCharacter returns false and the
\* handler returns its result all the same
EngineProcessCommandFails ==
    /\ eng.pc = "processCommand"
    /\ CanFail
    /\ faults' = faults + 1
    /\ LET c == cmds[eng.commands[eng.i]]
       IN \/ eng' = EngineAfterCommand(eng)
          \/ /\ c.character_id \in CharIds
             /\ c.raw_input # NoInput
             /\ \E parsedIntent \in parseCommand(c.raw_input) :
                \E o \in GameEngine_Dispatch(chars[c.character_id], parsedIntent) :
                  /\ o.fields # NoFields
                  /\ eng' = EngineAfterCommand(
                               [eng EXCEPT !.results =
                                   Append(@, ActionResult(c.character_id, o)),
                                           !.failed = @ \cup {Len(eng.results) + 1}])
    /\ UNCHANGED <<inst, chars, cmds, tk, adv, call>>

\* the caller has taken the return value of GameEngine.processTick: the
\* next invocation can start
EngineReturn ==
    /\ eng.pc = "done"
    /\ eng.runs + 1 < MaxRuns
    /\ eng' = [IdleEngine EXCEPT
                 !.runs = eng.runs + 1,
                 !.resolved = IF eng.ret = "ok"
                                THEN eng.resolved \cup
                                       {eng.commands[j] : j \in 1..Len(eng.commands)}
                                ELSE eng.resolved]
    /\ UNCHANGED <<inst, chars, cmds, faults, tk, adv, call>>

(***************************************************************************)
(* GameEngine.advanceToNextRoom: it changes the gameInstance object it     *)
(* loaded and returns true; no update of the stored record is issued.      *)
(***************************************************************************)
NoAdvance == [ret |-> "none", gameInstance |-> NewGameInstance]

\* an advance that raises the index from the last room as from any other
advanceToNextRoom_PastEnd(gameInstance) ==
    [gameInstance EXCEPT !.current_room_index = @ + 1]

advanceToNextRoom(gameInstance) ==
    LET nextRoomIndex == gameInstance.current_room_index + 1
    IN IF nextRoomIndex >= NumRooms
         THEN [gameInstance EXCEPT !.game_state = "completed"]
         ELSE [gameInstance EXCEPT !.current_room_index = nextRoomIndex]

AdvanceToNextRoom(id) ==
    /\ adv' = IF id # StoredInstance
                THEN [ret |-> "false", gameInstance |-> NewGameInstance]
                ELSE [ret |-> "true", gameInstance |-> advanceToNextRoom(inst)]
    /\ adv' # adv
    /\ UNCHANGED <<inst, chars, cmds, faults, tk, eng, call>>

(***************************************************************************)
(* Direct calls of the CombatSystem functions and of the command handlers  *)
(* on the stored characters, the character written back after each call.   *)
(***************************************************************************)
NoReturn == [hit |-> FALSE, damage |-> 0, actualDamage |-> 0]

NoCall == [op |-> "none", target |-> NewCharacter, amount |-> 0, skill |-> "none",
           ret |-> NoReturn, n |-> 0]

\* one more call, while the number of calls is below its bound
Called(op, target, amount, skill, ret) ==
    [op |-> op, target |-> target, amount |-> amount, skill |-> skill,
     ret |-> ret, n |-> call.n + 1]

Damages == {0, 5, 20}
Healings == {0, 15}

\* the texts of the handler calls: an attack, a skill use, an item use
HandlerInputs == { <<"attack", "goblin">>, <<"block">>, <<"drink", "potion">> }

\* CombatSystem.resolveAttack(chars[a], chars[d], 'swordsmanship')
CallResolveAttack(a, d) ==
    /\ call.n < MaxCalls
    /\ a # d
    /\ \E x \in { LET r == resolveAttack(chars[a], chars[d], "swordsmanship",
                                          NoModifiers, NoModifiers, r1, r2)
                   IN [ret |-> [hit |-> r.hit, damage |-> r.damage,
                                actualDamage |-> r.actualDamage],
                       defender |-> resolveAttack_defender(chars[a], chars[d],
                                                           "swordsmanship", r1, r2)]
                   : r1 \in rollD20, r2 \in rollD20 } :
         /\ call' = Called("resolveAttack", chars[d], 0, "swordsmanship", x.ret)
         /\ chars' = [chars EXCEPT ![d] = x.defender]
    /\ UNCHANGED <<inst, cmds, faults, tk, eng, adv>>

\* CombatSystem.applyDamage(chars[c], damage)
CallApplyDamage(c, damage) ==
    /\ call.n < MaxCalls
    /\ call' = Called("applyDamage", chars[c], damage, "none", NoReturn)
    /\ chars' = [chars EXCEPT ![c] = applyDamage(chars[c], damage)]
    /\ UNCHANGED <<inst, cmds, faults, tk, eng, adv>>

\* CombatSystem.applyHealing(chars[c], healing)
CallApplyHealing(c, healing) ==
    /\ call.n < MaxCalls
    /\ call' = Called("applyHealing", chars[c], healing, "none", NoReturn)
    /\ chars' = [chars EXCEPT ![c] = applyHealing(chars[c], healing)]
    /\ UNCHANGED <<inst, cmds, faults, tk, eng, adv>>

\* processCommand of game-tick.js on a command of character c: the parse,
\* the handler and its updateCharacter
CallHandler(c, input) ==
    /\ call.n < MaxCalls
    /\ LET parsedIntent == parseCommandFallback(input)
       IN \E o \in Dispatch(chars[c], parsedIntent) :
            /\ call' = Called(parsedIntent.intent, chars[c], 0,
                              parsedIntent.skill_suggested, NoReturn)
            /\ chars' = [chars EXCEPT ![c] = ApplyUpdate(@, o.fields, o.val)]
    /\ UNCHANGED <<inst, cmds, faults, tk, eng, adv>>

\* GameEngine.processCommand on a command of character c
CallEngineHandler(c, input) ==
    /\ call.n < MaxCalls
    /\ \E parsedIntent \in parseCommand(input) :
       \E o \in GameEngine_Dispatch(chars[c], parsedIntent) :
            /\ call' = Called(parsedIntent.intent, chars[c], 0,
                              parsedIntent.skill_suggested, NoReturn)
            /\ chars' = [chars EXCEPT ![c] = ApplyUpdate(@, o.fields, o.val)]
    /\ UNCHANGED <<inst, cmds, faults, tk, eng, adv>>

(***************************************************************************)
(* Single calls of the CombatSystem functions and of the attack resolution *)
(* of game-tick.js on given arguments: call holds the arguments before the *)
(* call, and the arguments, the die rolls and the returned value after it. *)
(***************************************************************************)
Argument(fn, args) == [op |-> "none", fn |-> fn, args |-> args, n |-> 0]

Returned(args, ret) == [op |-> call.fn, args |-> args, ret |-> ret, n |-> 1]

DiceSkillLevels == {0, 1, 25}
DiceModifiers ==
    { [NoModifiers EXCEPT !.item = i, !.buffs = b, !.debuffs = d]
      : i \in {0, 2}, b \in {0, 1}, d \in {0, 3} }
WeaponDamages == {0, 1, 3, 5}
AbilityBonuses == {0, 2}
DamageSkillLevels == {0, 4, 5, 25, 100}

\* attackers with a trained or untrained sword arm and either sword,
\* defenders with or without a shield skill
Attackers ==
    { [NewCharacter EXCEPT !.skills.swordsmanship = l, !.main_hand = w]
      : l \in {0, 3}, w \in {"rusty_sword", "iron_sword"} }
Defenders ==
    { [NewCharacter EXCEPT !.skills.shield_use = l, !.current_hp = hp]
      : l \in {0, 3}, hp \in {1, StartHP} }

\* the characters healing is applied to: an active character has health
HealingAmounts == {0, 5, 15}
HealingTargets ==
    { t \in { [NewCharacter EXCEPT !.skills.swordsmanship = l, !.current_hp = hp,
                                    !.status = st]
              : l \in {0, 100}, hp \in {0, 5, StartHP},
                st \in {"active", "knocked_out", "dead"} } :
        t.status = "active" => t.current_hp > 0 }

DiceArguments ==
    { Argument("calculateAttackRoll", [skillLevel |-> l, modifiers |-> m])
      : l \in DiceSkillLevels, m \in DiceModifiers }
    \cup { Argument("calculateDamage",
                    [skillLevel |-> l, weaponDamage |-> w, ability |-> a, critical |-> c])
           : l \in DamageSkillLevels, w \in WeaponDamages, a \in AbilityBonuses,
             c \in BOOLEAN }
    \cup { Argument("resolveAttack", [attacker |-> a, defender |-> d])
           : a \in Attackers, d \in Defenders }
    \cup { Argument("processAttackCommand", [attacker |-> a]) : a \in Attackers }
    \cup { Argument("applyHealing", [target |-> t, healing |-> h])
           : t \in HealingTargets, h \in HealingAmounts }
    \cup { Argument("processSkillProgression",
                    [character |-> [NewCharacter EXCEPT !.skills.swordsmanship = l]])
           : l \in {0, 99, MaxSkillLevel} }
    \cup { Argument("skillCheck", [skillLevel |-> l]) : l \in {0, 1, 14, 15, MaxSkillLevel} }

Pending(fn) == call.op = "none" /\ call.fn = fn

\* CombatSystem.calculateAttackRoll(skillLevel, modifiers)
CallCalculateAttackRoll ==
    /\ Pending("calculateAttackRoll")
    /\ \E roll \in rollD20 :
         call' = Returned(call.args,
                          calculateAttackRoll(roll, call.args.skillLevel, call.args.modifiers))
    /\ UNCHANGED <<inst, chars, cmds, faults, tk, eng, adv>>

\* CombatSystem.calculateDamage(skillLevel, weaponDamage, {ability, critical})
CallCalculateDamage ==
    /\ Pending("calculateDamage")
    /\ call' = Returned(call.args,
                        calculateDamage(call.args.skillLevel, call.args.weaponDamage,
                                        call.args.ability, call.args.critical))
    /\ UNCHANGED <<inst, chars, cmds, faults, tk, eng, adv>>

\* CombatSystem.resolveAttack(attacker, defender, 'swordsmanship')
CallResolveAttackOn ==
    /\ Pending("resolveAttack")
    /\ \E r1 \in rollD20, r2 \in rollD20 :
         call' = Returned([call.args EXCEPT !.defender =
                              resolveAttack_defender(call.args.attacker, @,
                                                     "swordsmanship", r1, r2)],
                          resolveAttack(call.args.attacker, call.args.defender,
                                        "swordsmanship", NoModifiers, NoModifiers, r1, r2))
    /\ UNCHANGED <<inst, chars, cmds, faults, tk, eng, adv>>

\* the attack resolution of processAttackCommand of game-tick.js for an
\* attacker using swordsmanship, with the two die rolls it drew
CallSimpleAttack ==
    /\ Pending("processAttackCommand")
    /\ \E r1 \in rollD20, r2 \in rollD20 :
         call' = Returned([attacker |-> call.args.attacker, r1 |-> r1, r2 |-> r2],
                          simpleAttack(SkillLevel(call.args.attacker, "swordsmanship"),
                                       r1, r2))
    /\ UNCHANGED <<inst, chars, cmds, faults, tk, eng, adv>>

\* CombatSystem.applyHealing(target, healing): the returned object and the
\* target after the call
CallApplyHealingOn ==
    /\ Pending("applyHealing")
    /\ call' = Returned([call.args EXCEPT !.target = applyHealing(@, call.args.healing)],
                        [before |-> call.args.target,
                         result |-> applyHealing_result(call.args.target,
                                                        call.args.healing)])
    /\ UNCHANGED <<inst, chars, cmds, faults, tk, eng, adv>>

\* CombatSystem.processSkillProgression(character, 'swordsmanship'), with
\* the draw of Math.random() * 100
CallProcessSkillProgression ==
    /\ Pending("processSkillProgression")
    /\ \E d \in ProgressDraws :
         LET r == processSkillProgression(call.args.character, "swordsmanship", d)
         IN call' = Returned([character |-> r.character, draw |-> d],
                             [leveledUp |-> r.leveledUp, newLevel |-> r.newLevel,
                              oldLevel |-> r.oldLevel])
    /\ UNCHANGED <<inst, chars, cmds, faults, tk, eng, adv>>

\* the skill check of the use_skill handlers at a skill level
CallSkillCheck ==
    /\ Pending("skillCheck")
    /\ \E roll \in rollD20 :
         call' = Returned(call.args, skillCheck(call.args.skillLevel, roll))
    /\ UNCHANGED <<inst, chars, cmds, faults, tk, eng, adv>>

\* command texts as the words of input.toLowerCase().trim().split(/\s+/)
CommandTexts ==
    { <<"attack", "goblin">>, <<"go", "north">>, <<"walk">>, <<"block">>,
      <<"drink", "potion">>, <<"cast", "fire">>, <<"examine">>, <<"dance">>,
      <<"look", "and", "attack">>, <<"use", "magic">> }

\* what the two keyword parsers make of the texts
Intents ==
    { parseCommandFallback(t) : t \in CommandTexts }
    \cup { fallbackParser(t) : t \in CommandTexts }

\* the characters a handler is called on: a position inside, at the edge or
\* outside the room, no potion, one or two with another item between them
HandlerCharacters ==
    { [NewCharacter EXCEPT !.skills.swordsmanship = l, !.current_hp = hp,
                           !.x_position = pos[1], !.y_position = pos[2],
                           !.inventory = inv]
      : l \in {0, MaxSkillLevel}, hp \in {5, StartHP},
        pos \in { <<1, 1>>, <<StartX, StartY>>, <<RoomMaxX, RoomMaxY>>, <<25, 0>> },
        inv \in { <<>>, <<"health_potion">>,
                  <<"health_potion", "rusty_key", "health_potion">> } }

HandlerArguments ==
    { Argument(fn, [character |-> c, parsedIntent |-> pi])
      : fn \in {"processCommand", "GameEngine.processCommand"},
        c \in HandlerCharacters, pi \in Intents }
    \cup { Argument("parseCommand", [input |-> t]) : t \in CommandTexts }

\* the switch of processCommand of game-tick.js and the handler it calls, on
\* a character and a parsed intent
CallProcessCommand ==
    /\ Pending("processCommand")
    /\ \E o \in Dispatch(call.args.character, call.args.parsedIntent) :
         call' = Returned(call.args, o)
    /\ UNCHANGED <<inst, chars, cmds, faults, tk, eng, adv>>

\* the switch of GameEngine.processCommand and the handler it calls
CallEngineProcessCommand ==
    /\ Pending("GameEngine.processCommand")
    /\ \E o \in GameEngine_Dispatch(call.args.character, call.args.parsedIntent) :
         call' = Returned(call.args, o)
    /\ UNCHANGED <<inst, chars, cmds, faults, tk, eng, adv>>

\* the two keyword parsers on one text: parseCommandFallback of game-tick.js
\* and LLMIntegration.fallbackParser
CallParse ==
    /\ Pending("parseCommand")
    /\ call' = Returned(call.args,
                        [tick |-> parseCommandFallback(call.args.input),
                         layer |-> fallbackParser(call.args.input)])
    /\ UNCHANGED <<inst, chars, cmds, faults, tk, eng, adv>>

(***************************************************************************)
(* GameEngine.submitCommand in its two awaits: getGameInstance, whose      *)
(* current_tick it keeps, then AirtableClient.submitCommand, which creates *)
(* the Command record; call holds the submission between the two.          *)
(***************************************************************************)
SubmitRead(characterId, rawInput) ==
    /\ call = NoCall
    /\ Len(cmds) < MaxCmds
    /\ call' = [op |-> "submitCommand", characterId |-> characterId,
                rawInput |-> rawInput, currentTick |-> inst.current_tick, n |-> 0]
    /\ UNCHANGED <<inst, chars, cmds, faults, tk, eng, adv>>

SubmitCreate ==
    /\ call.op = "submitCommand"
    /\ cmds' = Append(cmds, NewCommand(call.characterId, call.currentTick, call.rawInput))
    /\ call' = NoCall
    /\ UNCHANGED <<inst, chars, faults, tk, eng, adv>>

(***************************************************************************)
(* Specifications.                                                         *)
(*   Spec      invocations of processGameTick one after the other, with    *)
(*             failing storage calls, while commands are submitted and     *)
(*             rooms advanced at any moment                                *)
(*   SpecEngine  an invocation of GameEngine.processTick, with failing     *)
(*             storage calls, while commands are submitted and rooms       *)
(*             advanced                                                    *)
(*   SpecGate  as Spec, on submissions whose handlers draw no random       *)
(*             number, for the guards at the head of processGameTick       *)
(*   SpecRoom  one invocation of processGameTick on the attack commands    *)
(*             of fresh and veteran, living and dead characters, in any    *)
(*             room of the dungeon, and room advances                      *)
(*   SpecCombat  direct calls of the CombatSystem functions and of the     *)
(*             command handlers on stored characters of several levels     *)
(*   SpecRace  two overlapping invocations of processGameTick on the       *)
(*             commands of one tick, no storage call failing               *)
(***************************************************************************)
\* the stored game_state is whatever the store holds: the code's own writes
\* never change it
Init ==
    /\ inst \in {[NewGameInstance EXCEPT !.game_state = g] : g \in GameStates}
    /\ chars = [c \in CharIds |-> NewCharacter]
    /\ cmds = <<>>
    /\ faults = 0
    /\ tk = [p \in Procs |-> IdleTick]
    /\ eng = IdleEngine
    /\ adv = NoAdvance
    /\ call = NoCall

TickStep(p) ==
    \/ TickGetGameInstance(p)
    \/ TickGetTickCommands(p)
    \/ TickGetCharacter(p)
    \/ TickUpdateCharacter(p)
    \/ TickUpdateCommand(p)
    \/ TickUpdateGameInstance(p)
    \/ TickCheckRoomCompletion(p)

TickFailure(p) ==
    \/ TickLoadFails(p)
    \/ TickCommandFails(p)
    \/ TickUpdateGameInstanceFails(p)
    \/ TickCheckRoomCompletionFails(p)

EngineStep ==
    \/ EngineGetGameInstance
    \/ EngineGetGameInstanceFails
    \/ EngineGetTickCommands
    \/ EngineGetTickCommandsFails
    \/ EngineProcessCommand
    \/ EngineProcessCommandFails

Next ==
    \/ \E id \in InstanceIds, force \in BOOLEAN : TickStartAlone("p1", id, force)
    \/ TickStep("p1")
    \/ TickFailure("p1")
    \/ TickReturn("p1")
    \/ HandlerMissingInstanceId("p1")
    \/ \E s \in Submissions : SubmitCommand(s[1], s[2])
    \/ AdvanceToNextRoom(StoredInstance)

Spec == Init /\ [][Next]_vars

NextEngine ==
    \/ \E id \in InstanceIds, force \in BOOLEAN : EngineStart(id, force)
    \/ EngineStep
    \/ \E s \in Submissions : SubmitCommand(s[1], s[2])
    \/ \E id \in InstanceIds : AdvanceToNextRoom(id)

SpecEngine == Init /\ [][NextEngine]_vars

\* submissions whose resolution draws no random number: an item use, a
\* command without text and a command of a character that has no record
GateSubmissions ==
    { <<1, <<"drink", "potion">>>>, <<2, NoInput>>, <<3, <<"go">>>> }

NextGate ==
    \/ \E id \in InstanceIds, force \in BOOLEAN : TickStartAlone("p1", id, force)
    \/ TickStep("p1")
    \/ TickFailure("p1")
    \/ TickReturn("p1")
    \/ \E s \in GateSubmissions : SubmitCommand(s[1], s[2])
    \/ AdvanceToNextRoom(StoredInstance)

SpecGate == Init /\ [][NextGate]_vars

\* invocations of processGameTick and of GameEngine.processTick one after
\* the other, none overlapping another, no storage call failing
NextSequential ==
    \/ \E force \in BOOLEAN : TickStartAlone("p1", StoredInstance, force)
    \/ TickStep("p1")
    \/ TickReturn("p1")
    \/ \E force \in BOOLEAN : EngineStart(StoredInstance, force)
    \/ EngineGetGameInstance
    \/ EngineGetTickCommands
    \/ EngineProcessCommand
    \/ EngineReturn
    \/ \E s \in GateSubmissions : SubmitCommand(s[1], s[2])

SpecSequential == Init /\ [][NextSequential]_vars

\* submissions in two steps beside invocations of processGameTick one after
\* the other, no storage call failing
NextSubmit ==
    \/ \E force \in BOOLEAN : TickStartAlone("p1", StoredInstance, force)
    \/ TickStep("p1")
    \/ TickReturn("p1")
    \/ \E s \in GateSubmissions : SubmitRead(s[1], s[2])
    \/ SubmitCreate

SpecSubmit == Init /\ [][NextSubmit]_vars

\* the characters the store may hold in a combat room: fresh or veteran,
\* alive or dead
RoomSkillLevels == {0, 45}

RoomCharacters ==
    { [NewCharacter EXCEPT !.skills.swordsmanship = l,
                           !.status = st,
                           !.current_hp = IF st = "dead" THEN 0 ELSE StartHP]
      : l \in RoomSkillLevels, st \in {"active", "dead"} }

RoomSubmissions == { <<1, <<"attack", "goblin">>>>, <<2, <<"attack", "goblin">>>> }

InitRoom ==
    /\ inst \in {[NewGameInstance EXCEPT !.current_room_index = r] : r \in 0..(NumRooms - 1)}
    /\ chars \in [CharIds -> RoomCharacters]
    /\ \E n \in 0..MaxCmds :
         cmds \in [1..n -> {NewCommand(s[1], StartTick, s[2]) : s \in RoomSubmissions}]
    /\ faults = 0
    /\ tk = [p \in Procs |-> IdleTick]
    /\ eng = IdleEngine
    /\ adv = NoAdvance
    /\ call = NoCall

NextRoom ==
    \/ \E force \in BOOLEAN : TickStart("p1", StoredInstance, force)
    \/ TickStep("p1")
    \/ AdvanceToNextRoom(StoredInstance)

SpecRoom == InitRoom /\ [][NextRoom]_vars

\* the characters the store may hold when a CombatSystem function or a
\* handler is called
CombatSkillLevels == {0, 9, 100}

CombatCharacters ==
    { [NewCharacter EXCEPT !.skills.swordsmanship = l, !.current_hp = hp]
      : l \in CombatSkillLevels, hp \in {1, StartHP} }

\* the character the calls are made on, and the defender of its attacks
Subject == 1
Defender == 2

InitCombat ==
    /\ inst = NewGameInstance
    /\ chars \in { f \in [CharIds -> CombatCharacters] :
                     f[Defender].skills.swordsmanship = 0 }
    /\ cmds = <<>>
    /\ faults = 0
    /\ tk = [p \in Procs |-> IdleTick]
    /\ eng = IdleEngine
    /\ adv = NoAdvance
    /\ call = NoCall

NextCombat ==
    \/ CallResolveAttack(Subject, Defender)
    \/ \E damage \in Damages : CallApplyDamage(Subject, damage)
    \/ \E healing \in Healings : CallApplyHealing(Subject, healing)
    \/ \E input \in HandlerInputs : CallHandler(Subject, input)
    \/ \E input \in HandlerInputs : CallEngineHandler(Subject, input)

SpecCombat == InitCombat /\ [][NextCombat]_vars

InitDice ==
    /\ inst = NewGameInstance
    /\ chars = [c \in CharIds |-> NewCharacter]
    /\ cmds = <<>>
    /\ faults = 0
    /\ tk = [p \in Procs |-> IdleTick]
    /\ eng = IdleEngine
    /\ adv = NoAdvance
    /\ call \in DiceArguments \cup HandlerArguments

NextDice ==
    \/ CallCalculateAttackRoll
    \/ CallCalculateDamage
    \/ CallResolveAttackOn
    \/ CallSimpleAttack
    \/ CallApplyHealingOn
    \/ CallProcessSkillProgression
    \/ CallSkillCheck
    \/ CallProcessCommand
    \/ CallEngineProcessCommand
    \/ CallParse

SpecDice == InitDice /\ [][NextDice]_vars

\* what players submit before the race
RaceSubmissions ==
    { <<1, <<"go", "north">>>>, <<2, <<"drink", "potion">>>>, <<2, NoInput>> }

\* the commands of the first tick, submitted before the race
InitRace ==
    /\ inst = NewGameInstance
    /\ chars = [c \in CharIds |-> NewCharacter]
    /\ \E n \in 0..MaxCmds :
         cmds \in [1..n -> {NewCommand(s[1], StartTick, s[2]) : s \in RaceSubmissions}]
    /\ faults = 0
    /\ tk = [p \in Procs |-> IdleTick]
    /\ eng = IdleEngine
    /\ adv = NoAdvance
    /\ call = NoCall

NextRace ==
    \/ \E p \in Procs, force \in BOOLEAN : TickStart(p, StoredInstance, force)
    \/ \E p \in Procs : TickStep(p)

SpecRace == InitRace /\ [][NextRace]_vars

(***************************************************************************)
(* Claims.                                                                 *)
(***************************************************************************)
\* the steps of processGameTick after its command load
AfterLoad == {"getCharacter", "updateCharacter", "updateCommand",
              "updateGameInstance", "checkRoomCompletion"}

\* C1: of two invocations of processGameTick that read the same current_tick,
\* at most one commits the tick advance.
C1_AtMostOneCommitPerTick ==
    \A p, q \in Procs :
        (p # q /\ tk[p].committed /\ tk[q].committed)
            => tk[p].currentTick # tk[q].currentTick

\* C2: the commands of a tick are resolved by one invocation only: no command
\* gets its result persisted twice and no command's Character update is
\* applied twice.
C2_CommandResolvedOnce ==
    \A k \in 1..Len(cmds) : cmds[k].writes <= 1 /\ cmds[k].applied <= 1

\* C3: an invocation with force = false that loaded fewer commands than the
\* instance has characters returns the waiting outcome with the two counts
\* and has issued no write to the store.
C3_WaitingChangesNothing ==
    \A p \in Procs :
        ( /\ ~tk[p].force
          /\ Len(tk[p].commands) < tk[p].expectedPlayers
          /\ \/ tk[p].pc \in AfterLoad
             \/ tk[p].pc = "done" /\ tk[p].ret \in {"waiting", "success"} )
        => /\ tk[p].pc = "done"
           /\ tk[p].ret = "waiting"
           /\ tk[p].submitted = Len(tk[p].commands)
           /\ ~tk[p].wrote
           /\ ~tk[p].committed

C3_Witness ==
    \E p \in Procs :
        /\ tk[p].pc = "done" /\ tk[p].ret = "waiting" /\ ~tk[p].force
        /\ tk[p].submitted = 1 /\ tk[p].expectedPlayers = 2
        /\ inst.current_tick = tk[p].currentTick

\* C4: every instance update of a resolving invocation advances the stored
\* current_tick by exactly 1, so that the stored tick never decreases and
\* never skips a value.
C4_TickAdvancesByOne ==
    [][ /\ inst'.current_tick \in {inst.current_tick, inst.current_tick + 1}
        /\ \A p \in Procs :
             (tk[p].pc = "updateGameInstance" /\ tk'[p].pc = "checkRoomCompletion")
                => inst'.current_tick = inst.current_tick + 1 ]_vars

\* the instance a tick invocation names is missing or not active
Rejectable(id) == id # StoredInstance \/ inst.game_state # "active"

\* C5: a tick on an instance that does not exist or is not active returns a
\* failure without loading or resolving a command and without a write.
C5_InactiveInstanceRejected ==
    /\ \A p \in Procs :
         (tk[p].pc = "done" /\ Rejectable(tk[p].instance_id))
            => /\ tk[p].ret \in {"not_found", "not_active", "error"}
               /\ tk[p].commands = <<>> /\ tk[p].results = <<>> /\ ~tk[p].wrote
    /\ (eng.pc = "done" /\ Rejectable(eng.instance_id))
            => /\ eng.ret = "null"
               /\ ~eng.loaded /\ eng.results = <<>> /\ ~eng.wrote

\* C6: once the stored game_state is completed or failed, neither it nor the
\* stored current_tick nor the stored current_room_index changes again.
C6_TerminalStateIsAbsorbing ==
    [][ inst.game_state \in {"completed", "failed"}
          => /\ inst'.game_state = inst.game_state
             /\ inst'.current_tick = inst.current_tick
             /\ inst'.current_room_index = inst.current_room_index ]_vars

C6_Witness ==
    /\ inst.game_state \in {"completed", "failed"}
    /\ tk["p1"].pc = "done" /\ tk["p1"].ret = "not_active"
    /\ Len(cmds) > 0
    /\ adv.ret = "true"

\* a command whose resolution throws: its text is absent
Throws(k) == cmds[k].raw_input = NoInput /\ cmds[k].character_id \in CharIds

\* C7: a tick holding a command whose resolution throws still resolves, and
\* its results hold a failed result attributed to that command's character.
C7_FailedResultNamesCharacter ==
    /\ \A p \in Procs :
         (tk[p].pc = "done" /\ tk[p].ret = "success")
            => \A i \in 1..Len(tk[p].commands) :
                 Throws(tk[p].commands[i])
                    => \E j \in 1..Len(tk[p].results) :
                         tk[p].results[j] =
                            FailedResult(cmds[tk[p].commands[i]].character_id)
    /\ (eng.pc = "done" /\ eng.loaded)
            => /\ eng.ret = "ok"
               /\ \A i \in 1..Len(eng.commands) :
                    Throws(eng.commands[i])
                       => \E j \in 1..Len(eng.results) :
                            eng.results[j] =
                               FailedResult(cmds[eng.commands[i]].character_id)

\* C8: the results of a resolved tick hold exactly one result per collected
\* command, in the order of the commands.
C8_OneResultPerCommand ==
    /\ \A p \in Procs :
         (tk[p].pc = "done" /\ tk[p].ret = "success")
            => /\ Len(tk[p].results) = Len(tk[p].commands)
               /\ \A i \in 1..Len(tk[p].commands) :
                    tk[p].results[i].character_id =
                       cmds[tk[p].commands[i]].character_id
    /\ (eng.pc = "done" /\ eng.ret = "ok")
            => Len(eng.results) = Len(eng.commands)

C10_NothingPersistedBeforeCommit ==
    /\ \A p \in Procs :
         (tk[p].pc = "done" /\ tk[p].ret = "error" /\ ~tk[p].committed)
            => ~tk[p].wrote
    /\ \A k \in 1..Len(cmds) : cmds[k].applied <= 1

\* the damage the hits of results[1..n] dealt
RECURSIVE DamageDealt(_, _)
DamageDealt(results, n) ==
    IF n = 0 THEN 0 ELSE results[n].damage + DamageDealt(results, n - 1)

\* the health of the goblin after results[1..n], counted from its full health
HealthAfter(results, n) == Max(0, GoblinEnemy.max_hp - DamageDealt(results, n))

\* a tick invocation that resolved the first tick of the instance
Resolved(p) ==
    tk[p].pc = "done" /\ tk[p].ret = "success" /\ tk[p].currentTick = StartTick

AllDead == \A n \in 1..Len(InstanceCharacters) : chars[InstanceCharacters[n]].status = "dead"

\* C11: a resolved tick after which every participating character is dead
\* has set the stored game_state to failed, has not advanced the room and
\* has not completed the dungeon.
C11_AllDeadFailsGame ==
    \A p \in Procs :
        (Resolved(p) /\ AllDead)
            => /\ inst.game_state = "failed"
               /\ inst.current_room_index = tk[p].gameInstance.current_room_index
               /\ ~tk[p].room_status.advance

\* C12: a resolved tick whose hits brought the room's only enemy to health 0
\* reports the room completed and has advanced the stored current_room_index
\* (or completed the dungeon) in its own commit.
C12_ClearedRoomAdvancesInTick ==
    \A p \in Procs :
        ( /\ Resolved(p)
          /\ ~AllDead
          /\ areAllEnemiesDefeated(
                [enemies |-> << [GoblinEnemy EXCEPT !.current_hp =
                                    HealthAfter(tk[p].results, Len(tk[p].results))] >>]) )
        => /\ tk[p].room_status.completed
           /\ \/ inst.current_room_index = tk[p].gameInstance.current_room_index + 1
              \/ inst.game_state = "completed"

\* C13: an advance from the last room has set the stored game_state to
\* completed; an advance from an earlier room has raised the stored
\* current_room_index by 1 and left the stored game_state active.
C13_AdvanceIsStored ==
    adv.ret = "true"
        => /\ inst.game_state = adv.gameInstance.game_state
           /\ inst.current_room_index = adv.gameInstance.current_room_index

\* C14: every attack of a tick is resolved against the enemy's health as the
\* earlier hits of the tick left it.
C14_HitsReduceEnemyHealth ==
    \A p \in Procs :
        Resolved(p)
            => \A j \in 1..Len(tk[p].results) :
                 tk[p].results[j].type = "attack"
                    => tk[p].results[j].target_hp = HealthAfter(tk[p].results, j - 1)

\* C15: resolveAttack returns an actualDamage between 0 and the defender's
\* health and not above damage, and leaves the defender as it was.
C15_ActualDamageWithinHealth ==
    call.op = "resolveAttack"
        => /\ 0 <= call.ret.actualDamage
           /\ call.ret.actualDamage <= call.target.current_hp
           /\ call.ret.actualDamage <= call.ret.damage
           /\ chars[Defender].current_hp = call.target.current_hp
           /\ chars[Defender].status = call.target.status

C15_Witness ==
    /\ call.op = "resolveAttack"
    /\ call.ret.hit
    /\ call.ret.actualDamage = call.target.current_hp
    /\ call.ret.actualDamage < call.ret.damage

C17_OneResultPerCharacterTick ==
    /\ \A j, k \in 1..Len(cmds) :
         (/\ j # k
          /\ cmds[j].character_id = cmds[k].character_id
          /\ cmds[j].tick_number = cmds[k].tick_number)
            => ~(cmds[j].writes >= 1 /\ cmds[k].writes >= 1)
    /\ \A k \in 1..Len(cmds) : cmds[k].writes <= 1

\* C18: the stored current_hp of every character is between 0 and its stored
\* max_hp.
C18_HealthWithinStoredMax ==
    \A c \in CharIds : 0 <= chars[c].current_hp /\ chars[c].current_hp <= chars[c].max_hp

StatusRank(status) ==
    CASE status = "active" -> 0 [] status = "knocked_out" -> 1 [] OTHER -> 2

StatusAfterDeath(status) == IF status = "active" THEN "knocked_out" ELSE "dead"

\* C19: a call of applyDamage that leaves health at 0 moves the status one
\* step along active, knocked_out, dead (dead stays dead), one that leaves
\* health above 0 keeps the status, and no other call changes the status.
C19_StatusMovesForward ==
    [][ \A c \in CharIds :
          /\ StatusRank(chars'[c].status) >= StatusRank(chars[c].status)
          /\ IF call'.op = "applyDamage" /\ c = Subject
               THEN chars'[c].status =
                       IF chars'[c].current_hp = 0
                         THEN StatusAfterDeath(chars[c].status)
                         ELSE chars[c].status
               ELSE chars'[c].status = chars[c].status ]_vars

C19_Witness ==
    /\ call.op = "applyDamage"
    /\ call.target.status = "knocked_out"
    /\ chars[Subject].status = "dead"

\* the skills two versions of a character have between them
SkillsOf(before, after) == DOMAIN before.skills \cup DOMAIN after.skills

\* C20: every stored skill level is in 0..100, and a call of an attack or
\* skill handler changes no level but that of the skill used, by 0 or 1.
C20_SkillLevelsBounded ==
    [][ \A c \in CharIds :
          /\ \A k \in DOMAIN chars'[c].skills :
               chars'[c].skills[k] \in 0..MaxSkillLevel
          /\ \A k \in SkillsOf(chars[c], chars'[c]) :
               IF c = Subject /\ call'.op \in {"attack", "use_skill"} /\ k = call'.skill
                 THEN SkillLevel(chars'[c], k) - SkillLevel(chars[c], k) \in {0, 1}
                 ELSE SkillLevel(chars'[c], k) = SkillLevel(chars[c], k) ]_vars

C20_Witness ==
    /\ call.op \in {"attack", "use_skill"}
    /\ SkillLevel(chars[Subject], call.skill) = SkillLevel(call.target, call.skill) + 1
    /\ \E k \in DOMAIN chars[Subject].skills : chars[Subject].skills[k] = MaxSkillLevel

\* C26: calculateAttackRoll returns a roll in 1..20 and the total roll +
\* skillLevel + item + buffs - debuffs, less 5 exactly when skillLevel is 0;
\* critical is true iff the roll is 20, fumble iff it is 1, never both.
C26_AttackRollTotal ==
    call.op = "calculateAttackRoll"
        => LET a == call.args
               r == call.ret
           IN /\ r.roll \in 1..20
              /\ r.total = r.roll + a.skillLevel + a.modifiers.item + a.modifiers.buffs
                              - a.modifiers.debuffs
                              - (IF a.skillLevel = 0 THEN 5 ELSE 0)
              /\ r.critical <=> r.roll = 20
              /\ r.fumble <=> r.roll = 1
              /\ ~(r.critical /\ r.fumble)

\* an untrained attack roll of 12 with a debuff: the penalty applies
C26_Witness ==
    /\ call.op = "calculateAttackRoll"
    /\ call.args.skillLevel = 0
    /\ call.args.modifiers.debuffs = 3
    /\ call.ret.roll = 12
    /\ call.ret.total = 4

\* C27: for the same attacker and the same two die rolls the attack
\* resolution of processAttackCommand of game-tick.js reports the attack
\* total, the defense total, the hit verdict and the damage that
\* CombatSystem.resolveAttack yields against the goblin.
C27_TickAttackIsResolveAttack ==
    call.op = "processAttackCommand"
        => LET r == resolveAttack(call.args.attacker, GoblinEnemy, "swordsmanship",
                                  NoModifiers, NoModifiers, call.args.r1, call.args.r2)
           IN /\ call.ret.total = r.attackRoll.total
              /\ call.ret.defenseRoll = r.defenseRoll.total
              /\ call.ret.hit = r.hit
              /\ call.ret.damage = r.damage

\* C28: resolveAttack reports a hit iff the attack total is at least the
\* defense total, and a miss has damage 0 and actualDamage 0.
C28_HitIffTotalAtLeast ==
    call.op = "resolveAttack"
        => /\ call.ret.hit <=> call.ret.attackRoll.total >= call.ret.defenseRoll.total
           /\ ~call.ret.hit => call.ret.damage = 0 /\ call.ret.actualDamage = 0

\* a tie of the two totals that is a hit
C28_Witness ==
    /\ call.op = "resolveAttack"
    /\ call.ret.attackRoll.total = call.ret.defenseRoll.total
    /\ call.ret.hit
    /\ call.ret.damage >= 1

\* C29: calculateDamage returns max(1, b), or max(1, 2 * b) on a critical
\* hit, for b = floor(skillLevel / 5) + weaponDamage + abilityBonus; the
\* result is at least 1.
C29_DamageFormula ==
    call.op = "calculateDamage"
        => LET a == call.args
               b == (a.skillLevel \div 5) + a.weaponDamage + a.ability
           IN /\ call.ret = (IF a.critical THEN Max(1, 2 * b) ELSE Max(1, b))
              /\ call.ret >= 1

\* skill 25 and weapon damage 3 on a critical hit give 16
C29_Witness ==
    /\ call.op = "calculateDamage"
    /\ call.args.skillLevel = 25
    /\ call.args.weaponDamage = 3
    /\ call.args.ability = 0
    /\ call.args.critical
    /\ call.ret = 16

\* C30: applyHealing with a non-negative amount does not lower current_hp,
\* does not raise it above the max_hp of the character, returns
\* actualHealing = newHP - the health before, and leaves the status as it
\* was.
C30_HealingOnlyRaisesToMax ==
    call.op = "applyHealing"
        => LET before == call.ret.before
               after == call.args.target
               result == call.ret.result
           IN /\ after.current_hp >= before.current_hp
              /\ after.current_hp <= after.max_hp
              /\ result.newHP = after.current_hp
              /\ result.actualHealing = result.newHP - before.current_hp
              /\ after.status = before.status

\* C21: the result of a command whose handler's storage update failed has
\* success = false and names the command's character, in processGameTick
\* and in GameEngine.processTick; the invocation goes on to its other
\* commands.
C21_FailedUpdateFailsResult ==
    /\ \A j \in eng.failed :
         /\ eng.results[j].success = FALSE
         /\ eng.results[j].character_id \in CharIds
    /\ \A p \in Procs : \A j \in tk[p].failed :
         /\ tk[p].results[j].success = FALSE
         /\ tk[p].results[j].character_id \in CharIds

\* C22: a request without instance_id is answered as a client error with no
\* instance loaded; not-found, not-active and waiting are client errors; an
\* exception inside processGameTick is answered with the internal-error
\* status, which is not the client-error status; none of these outcomes has
\* committed the tick.
C22_OutcomeClasses ==
    \A p \in Procs :
        tk[p].pc = "done"
            => /\ tk[p].ret = "missing_instance_id"
                    => /\ ResponseStatus(tk[p].ret) = StatusClientError
                       /\ tk[p].currentTick = 0
               /\ tk[p].ret \in {"not_found", "not_active", "waiting"}
                    => /\ ResponseStatus(tk[p].ret) = StatusClientError
                       /\ ~tk[p].wrote
               /\ tk[p].ret = "error"
                    => /\ ResponseStatus(tk[p].ret) = StatusInternalError
                       /\ ResponseStatus(tk[p].ret) # StatusClientError
               /\ tk[p].ret # "success" => ~tk[p].committed

\* C23: an invocation of processGameTick with force = false that went past
\* the waiting check, or of GameEngine.processTick that went past its
\* readiness check, loaded a command of every character of the instance.
C23_ResolvesOnlyWhenAllSubmitted ==
    /\ \A p \in Procs :
         ( /\ ~tk[p].force
           /\ \/ tk[p].pc \in AfterLoad
              \/ tk[p].pc = "done" /\ tk[p].ret = "success" )
         => \A n \in 1..Len(InstanceCharacters) :
              \E j \in 1..Len(tk[p].commands) :
                 cmds[tk[p].commands[j]].character_id = InstanceCharacters[n]
    /\ ( /\ ~eng.force
         /\ \/ eng.pc = "processCommand"
            \/ eng.pc = "done" /\ eng.ret = "ok" )
         => \A n \in 1..Len(InstanceCharacters) :
              \E j \in 1..Len(eng.commands) :
                 cmds[eng.commands[j]].character_id = InstanceCharacters[n]

\* C24: with invocations one after the other, no command has its result
\* persisted twice by processGameTick, and no invocation of
\* GameEngine.processTick processes a command that an earlier invocation
\* processed.
C24_SequentialTicksResolveOnce ==
    /\ \A k \in 1..Len(cmds) : cmds[k].writes <= 1
    /\ eng.pc = "processCommand" => eng.commands[eng.i] \notin eng.resolved

\* C25: no Command record of a character of the store with a text is left
\* without a result under a tick number below the stored current_tick,
\* where no later invocation loads it.
C25_NoCommandLeftBehind ==
    \A k \in 1..Len(cmds) :
        ( /\ cmds[k].tick_number < inst.current_tick
          /\ cmds[k].character_id \in CharIds
          /\ cmds[k].raw_input # NoInput )
        => cmds[k].writes >= 1

\* C31: processSkillProgression reports leveledUp = true iff the level it
\* returns is the old level + 1, and the level of the character's skill
\* after the call is the level it returns.
C31_LeveledUpIffLevelRose ==
    call.op = "processSkillProgression"
        => /\ call.ret.leveledUp <=> call.ret.newLevel = call.ret.oldLevel + 1
           /\ SkillLevel(call.args.character, "swordsmanship") = call.ret.newLevel

\* C33: the skill check succeeds iff roll + skill level is at least 16; at
\* level 15 and above it succeeds for every roll, at level 0 for the rolls
\* from 16 on only.
C33_SkillCheckThreshold ==
    call.op = "skillCheck"
        => LET l == call.args.skillLevel
               r == call.ret
           IN /\ r.roll \in 1..20
              /\ r.success <=> r.roll + l >= 16
              /\ l >= 15 => r.success
              /\ l = 0 => (r.success <=> r.roll >= 16)

\* a total of exactly 16 that succeeds
C33_Witness ==
    /\ call.op = "skillCheck"
    /\ call.args.skillLevel = 1
    /\ call.ret.roll = 15
    /\ call.ret.success

\* C32: after a call of an attack or skill handler that stored a level-up,
\* the stored max_hp of the character is 20 + floor(T / 10) for the sum T
\* of its stored skill levels.
C32_MaxHealthTracksSkills ==
    ( /\ call.op \in {"attack", "use_skill"}
      /\ chars[Subject].skills # call.target.skills )
        => chars[Subject].max_hp
             = calculateMaxHP(calculateTotalLevel(chars[Subject].skills))


\* the handler calls of the two implementations and the outcomes a call can
\* return on the arguments of the last call
HandlerCalled == call.op \in {"processCommand", "GameEngine.processCommand"}
HandlerOutcomes ==
    IF call.op = "processCommand"
      THEN Dispatch(call.args.character, call.args.parsedIntent)
      ELSE GameEngine_Dispatch(call.args.character, call.args.parsedIntent)
\* parsedIntent.skill_suggested || 'swordsmanship' (attack), || 'perception'
\* (use_skill)
SkillUsed ==
    IF call.args.parsedIntent.skill_suggested # "none"
      THEN call.args.parsedIntent.skill_suggested
    ELSE IF call.args.parsedIntent.intent = "attack" THEN "swordsmanship"
    ELSE "perception"

\* C34: an attack or use_skill command evaluates the progression of the
\* skill it used once: only that skill changes, by one level at most, and
\* whatever the progression did can come with either verdict the call can
\* return (hit or miss, success or failure)
C34_ProgressionIndependentOfVerdict ==
    ( /\ HandlerCalled
      /\ call.args.parsedIntent.intent \in {"attack", "use_skill"} )
        => /\ \A k \in SkillsOf(call.args.character, call.ret.val) :
                IF k = SkillUsed
                  THEN SkillLevel(call.ret.val, k)
                         - SkillLevel(call.args.character, k) \in {0, 1}
                  ELSE SkillLevel(call.ret.val, k) = SkillLevel(call.args.character, k)
           /\ \A o2 \in HandlerOutcomes :
                \E o \in HandlerOutcomes :
                    /\ o.success = o2.success
                    /\ o.val.skills = call.ret.val.skills
                    /\ o.fields = call.ret.fields

C34_Witness ==
    /\ HandlerCalled
    /\ call.args.parsedIntent.intent = "attack"
    /\ ~call.ret.success
    /\ SkillLevel(call.ret.val, SkillUsed) = SkillLevel(call.args.character, SkillUsed) + 1

\* a sequence without the first of its entries equal to item
RECURSIVE RemoveFirst(_, _)
RemoveFirst(seq, item) ==
    IF seq = <<>> THEN <<>>
    ELSE IF Head(seq) = item THEN Tail(seq)
    ELSE <<Head(seq)>> \o RemoveFirst(Tail(seq), item)

\* C35: a successful use_item sets current_hp to min(max_hp, current_hp +
\* 15) and removes one health potion from the inventory: the other entries,
\* further potions included, stay in their order
C35_OnePotionConsumed ==
    ( /\ HandlerCalled
      /\ call.ret.type = "item_use"
      /\ call.ret.success )
        => /\ call.ret.val.current_hp
                = Min(call.args.character.max_hp,
                      call.args.character.current_hp + PotionHealing)
           /\ call.ret.val.inventory
                = RemoveFirst(call.args.character.inventory, "health_potion")

\* the last call was use_item on a character that carries no health potion
ItemMissing ==
    /\ call.args.parsedIntent.intent = "use_item"
    /\ ~Includes(call.args.character.inventory, "health_potion")

\* C36: interact, an unknown intent and use_item without a potion issue no
\* storage update and leave the character as it was; interact succeeds, the
\* other two fail
C36_NoMutationHandlers ==
    ( /\ HandlerCalled
      /\ \/ call.args.parsedIntent.intent \in {"interact", "unknown"}
         \/ ItemMissing )
        => /\ call.ret.fields = NoFields
           /\ call.ret.val = call.args.character
           /\ call.ret.success = (call.args.parsedIntent.intent = "interact")

C36_Witness ==
    /\ call.op = "processCommand"
    /\ call.args.parsedIntent.intent = "interact"
    /\ call.ret.success
    /\ call.args.character.inventory # <<>>

\* C37: whatever the position before a move, the position the move writes
\* is inside the room: 1 <= x_position <= 18 and 1 <= y_position <= 8
C37_MoveStaysInRoom ==
    ( /\ HandlerCalled
      /\ call.args.parsedIntent.intent = "move" )
        => /\ call.ret.fields = {"x_position", "y_position"}
           /\ call.ret.val.x_position \in 1..RoomMaxX
           /\ call.ret.val.y_position \in 1..RoomMaxY

C37_Witness ==
    /\ HandlerCalled
    /\ call.args.parsedIntent.intent = "move"
    /\ call.args.character.x_position > RoomMaxX
    /\ call.args.character.y_position < 1
    /\ call.ret.val.x_position = RoomMaxX
    /\ call.ret.val.y_position = 1

\* C38: from a position inside the room a move changes at most one of
\* x_position and y_position, by at most 1, and a move north, south, east
\* or west is a step in that direction
C38_OneCardinalStep ==
    ( /\ HandlerCalled
      /\ call.args.parsedIntent.intent = "move"
      /\ call.args.character.x_position \in 1..RoomMaxX
      /\ call.args.character.y_position \in 1..RoomMaxY )
        => LET dx == call.ret.val.x_position - call.args.character.x_position
               dy == call.ret.val.y_position - call.args.character.y_position
               to == call.args.parsedIntent.target
           IN /\ dx \in -1..1
              /\ dy \in -1..1
              /\ dx = 0 \/ dy = 0
              /\ to \in {"north", "south"} => dx = 0
              /\ to \in {"east", "west"} => dy = 0 /\ dx = (IF to = "east" THEN 1 ELSE -1)

\* C39: the keyword fallback of the tick endpoint and the keyword fallback
\* of the intent layer classify a text to the same intent; a text with a
\* cast word only is use_skill and a text with an examine word only is
\* interact for both
C39_FallbacksAgree ==
    call.op = "parseCommand"
        => /\ call.ret.tick.intent = call.ret.layer.intent
           /\ ( /\ HasWord(call.args.input, CastWords)
                /\ ~HasWord(call.args.input,
                            AttackWords \cup MoveWords \cup DefendWords \cup ItemWords) )
                => call.ret.tick.intent = "use_skill"
           /\ ( /\ HasWord(call.args.input, ExamineWords)
                /\ ~HasWord(call.args.input,
                            AttackWords \cup MoveWords \cup DefendWords
                              \cup ItemWords \cup CastWords) )
                => call.ret.tick.intent = "interact"

\* C40: the stored current_room_index and the index advanceToNextRoom
\* leaves in the game instance it holds are indexes into the room sequence;
\* an advance from the last room marks that instance completed and leaves
\* its index where it was
C40_RoomIndexValid ==
    /\ inst.current_room_index \in 0..(NumRooms - 1)
    /\ adv.ret = "true"
         => /\ adv.gameInstance.current_room_index \in 0..(NumRooms - 1)
            /\ inst.current_room_index = NumRooms - 1
                 => /\ adv.gameInstance.game_state = "completed"
                    /\ adv.gameInstance.current_room_index = inst.current_room_index
            /\ inst.current_room_index < NumRooms - 1
                 => adv.gameInstance.current_room_index = inst.current_room_index + 1

C40_Witness ==
    /\ adv.ret = "true"
    /\ inst.current_room_index = NumRooms - 1
    /\ adv.gameInstance.game_state = "completed"
    /\ adv.gameInstance.current_room_index = NumRooms - 1
====
